---- MODULE Spec2Model ----
(***************************************************************************)
(* A model of src/gns3_manager.py: the GNS3Manager console session.        *)
(*                                                                         *)
(* State: the in-memory configuration (self.config), the three files the   *)
(* program touches (config.json, docker-compose.template.yml,              *)
(* docker-compose.yml), the position of the session (pc) and what the last *)
(* step read, printed and invoked.                                         *)
(*                                                                         *)
(* Text is modelled as a sequence of tokens.  An input line is a sequence  *)
(* of one-character strings; a template or rendered document is a sequence *)
(* of tokens in which a placeholder such as ${QEMU_VERSION}, or a version  *)
(* string, is one token.                                                   *)
(*                                                                         *)
(* Environment assumptions.  The program blocks at three kinds of places:  *)
(* input() at the menu prompt, input() inside select_version, and          *)
(* subprocess.run.  A KeyboardInterrupt is delivered only there (spec.md   *)
(* section 5).  Of the file operations, only the write of config.json may  *)
(* fail (ConfigWriteError of spec.md section 7); the configuration is a    *)
(* JSON object whose "defaults" and "available_versions", when present,    *)
(* have the types of spec.md section 6.  No other program writes the       *)
(* three files while the session runs.                                     *)
(***************************************************************************)
EXTENDS Integers, Sequences, FiniteSets

VARIABLES
    pc,          \* "start" | "menu" | "select" | "build" | "compose" | "exited"
    exitStatus,  \* the process's exit status once pc = "exited", else -1
    config,      \* self.config
    cfgFile,     \* config.json
    tmplFile,    \* docker-compose.template.yml
    outFile,     \* docker-compose.yml
    choice,      \* run(): the stripped menu choice being served
    line,        \* select_version(): the raw line read by the last prompt
    version,     \* run(): what select_version returned, <<>> for None
    ev,          \* what the last blocking call delivered
    msg,         \* what the last step printed, "" when it printed nothing
    invoked,     \* the external command started by the operation being served
    saveFailed   \* history: some save_config of this session has raised

vars == <<pc, exitStatus, config, cfgFile, tmplFile, outFile, choice, line,
          version, ev, msg, invoked, saveFailed>>

-----------------------------------------------------------------------------
(* Bounds and the universe of inputs *)

\* The longest list of available versions a component has in the config.
MaxVersions == 2

QEMU_VERSION == "${QEMU_VERSION}"
GNS3_SERVER_VERSION == "${GNS3_SERVER_VERSION}"
OTHER_PLACEHOLDER == "${OTHER}"

\* Version strings are not validated: any string may be listed, the empty
\* one and one that reads like a placeholder included.
Gns3Catalog == <<"2.2.54", "", "3.0.0", "3.0.1">>
QemuCatalog == <<GNS3_SERVER_VERSION, "8.2.0", "9.0.0", "">>

Take(s, n) == SubSeq(s, 1, n)

DigitChars == <<"0", "1", "2", "3", "4", "5", "6", "7", "8", "9">>

\* dict: a function whose domain is the set of keys present.
EmptyDict == <<>>
\* dict.get(k, default)
Get(d, k, default) == IF k \in DOMAIN d THEN d[k] ELSE default
\* d[k] = v
Put(d, k, v) == [j \in DOMAIN d \cup {k} |-> IF j = k THEN v ELSE d[j]]

\* None and a returned string, for Optional[str].
None == <<>>
Some(v) == <<v>>

-----------------------------------------------------------------------------
(* Pure functions of the program *)

\* str.strip() over the whitespace the inputs contain.
RECURSIVE LStrip(_)
LStrip(s) == IF s # <<>> /\ Head(s) = " " THEN LStrip(Tail(s)) ELSE s

RECURSIVE RStrip(_)
RStrip(s) ==
    IF s # <<>> /\ s[Len(s)] = " " THEN RStrip(SubSeq(s, 1, Len(s) - 1)) ELSE s

Strip(s) == RStrip(LStrip(s))

\* str.lower()
LowerChar(c) == IF c = "Q" THEN "q" ELSE IF c = "X" THEN "x" ELSE c
Lower(s) == [i \in DOMAIN s |-> LowerChar(s[i])]

IsDigit(c) == \E i \in DOMAIN DigitChars : DigitChars[i] = c
DigitVal(c) == (CHOOSE i \in DOMAIN DigitChars : DigitChars[i] = c) - 1

RECURSIVE Decimal(_)
Decimal(s) ==
    IF s = <<>> THEN 0
    ELSE 10 * Decimal(SubSeq(s, 1, Len(s) - 1)) + DigitVal(s[Len(s)])

\* int(choice): an optional sign, then one or more digits; anything else
\* raises ValueError.
IsIntLiteral(s) ==
    LET body == IF s # <<>> /\ Head(s) \in {"+", "-"} THEN Tail(s) ELSE s
    IN  body # <<>> /\ \A i \in DOMAIN body : IsDigit(body[i])

int(s) ==
    IF Head(s) = "-" THEN 0 - Decimal(Tail(s))
    ELSE IF Head(s) = "+" THEN Decimal(Tail(s))
    ELSE Decimal(s)

-----------------------------------------------------------------------------
(* Files *)

\* config.json: missing, not parseable as JSON, or the text of a document.
\* json.load returns the document whatever the layout of the text.
MissingFile == [state |-> "missing"]
Unparseable == [state |-> "unparseable"]
JsonText(layout, doc) == [state |-> "json", layout |-> layout, doc |-> doc]
json_load(f) == f.doc

\* json.dump(self.config, f, indent=2)
json_dump(doc) == JsonText("indent2", doc)

\* A text file: missing, or its tokens.
NoText == [exists |-> FALSE, text |-> <<>>]
Text(t) == [exists |-> TRUE, text |-> t]

\* The documents config.json may hold at startup.
InitDefaults ==
    { EmptyDict,
      [qemu_version |-> "7.0.0", gns3_server_version |-> "2.2.53"] }

InitAvailable ==
    { [gns3_server |-> Take(Gns3Catalog, n), qemu |-> Take(QemuCatalog, n)] :
        n \in 0..MaxVersions }
    \cup { [gns3_server |-> Take(Gns3Catalog, MaxVersions)] }

InitDocs ==
    { [defaults |-> d, available_versions |-> a] :
        d \in InitDefaults, a \in InitAvailable }
    \cup { [available_versions |-> a] : a \in InitAvailable }
    \cup { [defaults |-> d] : d \in InitDefaults }

InitTemplates ==
    { NoText,
      Text(<<"image: gns3-qemu:", QEMU_VERSION, "-server-", GNS3_SERVER_VERSION,
             OTHER_PLACEHOLDER, QEMU_VERSION>>),
      Text(<<"services: {}">>) }

InitOutputs == { NoText, Text(<<"previously rendered">>) }

\* Lines the user may type at the menu prompt.
MenuLines ==
    { <<DigitChars[k + 1]>> : k \in 1..9 }
    \cup { <<>>, <<" ", "3", " ">>, <<"x">> }

\* Lines the user may type at the version prompt: every single digit up to
\* one past the longest list, and the shapes that int() and the cancel test
\* tell apart.
SelectLines ==
    { <<DigitChars[k + 1]>> : k \in 0..(MaxVersions + 1) }
    \cup { <<"q">>, <<"Q">>, <<" ", "q", " ">>,
           <<"x">>, <<>>, <<"-", "1">>, <<"+", "1">>, <<" ", "2", " ">>,
           <<"1", "0">>, <<"1", "x">> }

-----------------------------------------------------------------------------
(* GNS3Manager *)

get_defaults(cfg) == Get(cfg, "defaults", EmptyDict)

get_available_versions(cfg) == Get(cfg, "available_versions", EmptyDict)

\* run(), lines 210-218: the component a version menu choice selects for.
ComponentOf(c) == IF c = <<"1">> THEN "gns3_server" ELSE "qemu"

component == ComponentOf(choice)

\* select_version, lines 65-66: the list offered for a component.
VersionsOf(comp) == Get(get_available_versions(config), comp, <<>>)

versions == VersionsOf(component)

\* f"{component}_version"
DefaultKey(comp) ==
    IF comp = "gns3_server" THEN "gns3_server_version" ELSE "qemu_version"

\* Mutant of main: a config that cannot be parsed is taken as an empty one.
main_Lenient ==
    /\ pc = "start"
    /\ IF cfgFile.state = "missing"
       THEN /\ msg' = "Error: Config file not found!"
            /\ pc' = "exited"
            /\ exitStatus' = 1
            /\ UNCHANGED config
       ELSE /\ config' = IF cfgFile.state = "unparseable"
                         THEN EmptyDict ELSE cfgFile.doc
            /\ pc' = "menu"
            /\ UNCHANGED <<msg, exitStatus>>
    /\ UNCHANGED <<cfgFile, tmplFile, outFile, choice, line, version, ev,
                   invoked, saveFailed>>

\* __init__, load_config and main: the session starts, or the process ends.
main ==
    /\ pc = "start"
    /\ IF cfgFile.state = "missing"
       THEN /\ msg' = "Error: Config file not found!"
            /\ pc' = "exited"
            /\ exitStatus' = 1
            /\ UNCHANGED config
       ELSE IF cfgFile.state = "unparseable"
       THEN /\ msg' = "Traceback: JSONDecodeError"
            /\ pc' = "exited"
            /\ exitStatus' = 1
            /\ UNCHANGED config
       ELSE /\ config' = json_load(cfgFile)
            /\ pc' = "menu"
            /\ UNCHANGED <<msg, exitStatus>>
    /\ UNCHANGED <<cfgFile, tmplFile, outFile, choice, line, version, ev,
                   invoked, saveFailed>>

\* save_config: open(path, 'w') may raise before the file is touched, and
\* json.dump may raise after open has truncated it; either exception is
\* caught by run, which prints it.
save_config(cfg) ==
    \E outcome \in {"ok", "open raises", "write raises"} :
        /\ cfgFile' = CASE outcome = "ok" -> json_dump(cfg)
                        [] outcome = "open raises" -> cfgFile
                        [] outcome = "write raises" -> Unparseable
        /\ msg' = IF outcome = "ok" THEN "Updated default" ELSE "Error: OSError"
        /\ saveFailed' = (saveFailed \/ outcome # "ok")

\* Mutant of update_default: the file is saved before the entry is assigned.
update_default_SaveFirst(comp, v) ==
    LET withDefaults == IF "defaults" \in DOMAIN config
                        THEN config
                        ELSE Put(config, "defaults", EmptyDict)
    IN  /\ config' = Put(withDefaults, "defaults",
                         Put(withDefaults.defaults, DefaultKey(comp), v))
        /\ save_config(withDefaults)

\* Mutant of update_default: the assignment is undone when the save raises.
update_default_Rollback(comp, v) ==
    LET withDefaults == IF "defaults" \in DOMAIN config
                        THEN config
                        ELSE Put(config, "defaults", EmptyDict)
        newConfig == Put(withDefaults, "defaults",
                         Put(withDefaults.defaults, DefaultKey(comp), v))
    IN  /\ save_config(newConfig)
        /\ config' = IF msg' = "Updated default" THEN newConfig ELSE config

\* Mutant of update_default: the defaults mapping is replaced, not updated.
update_default_Replace(comp, v) ==
    LET newConfig == Put(config, "defaults",
                         Put(EmptyDict, DefaultKey(comp), v))
    IN  /\ config' = newConfig
        /\ save_config(newConfig)

update_default(comp, v) ==
    LET withDefaults == IF "defaults" \in DOMAIN config
                        THEN config
                        ELSE Put(config, "defaults", EmptyDict)
        newConfig == Put(withDefaults, "defaults",
                         Put(withDefaults.defaults, DefaultKey(comp), v))
    IN  /\ config' = newConfig
        /\ save_config(newConfig)

\* Mutant of InRange: the lower bound is not tested.
InRange_NoLowerBound(idx, vs) == idx < Len(vs)

\* 0 <= idx < len(versions)
InRange(idx, vs) == 0 <= idx /\ idx < Len(vs)

\* versions[idx], with Python's indexing from the end for a negative idx;
\* an idx outside -len..len-1 raises IndexError.
IndexRaises(vs, idx) == idx >= Len(vs) \/ idx < 0 - Len(vs)
Index(vs, idx) == IF idx >= 0 THEN vs[idx + 1] ELSE vs[Len(vs) + idx + 1]

\* Mutant of IsQuit: the lowered input is compared with the upper-case letter.
IsQuit_WrongCase(c) == Lower(c) = <<"Q">>

\* select_version, line 79: the cancel test of the version prompt.
IsQuit(c) == Lower(c) = <<"q">>

\* run(): `if version:` is false for None and for the empty string.
Truthy(v) == v # None /\ v[1] # ""

\* run(), options 1 and 2, once select_version has returned v.
\* `said` is the last message select_version printed before returning.
Returned(v, said) ==
    /\ version' = v
    /\ pc' = "menu"
    /\ IF Truthy(v)
       THEN update_default(component, v[1])
       ELSE /\ msg' = said
            /\ UNCHANGED <<config, cfgFile, saveFailed>>

\* select_version, lines 65-74: no prompt when the component has no versions.
select_version_enter(comp) ==
    IF VersionsOf(comp) = <<>>
    THEN /\ msg' = "No versions available"
         /\ version' = None
         /\ pc' = "menu"
    ELSE /\ msg' = "Available versions"
         /\ version' = None
         /\ pc' = "select"

\* select_version, lines 76-93: one iteration of the prompt loop.
select_version ==
    /\ pc = "select"
    /\ \/ \E raw \in SelectLines :
            LET c == Strip(raw) IN
            /\ line' = raw
            /\ ev' = "line"
            /\ IF IsQuit(c)
               THEN Returned(None, "")
               ELSE IF ~IsIntLiteral(c)
               THEN /\ msg' = "Invalid input"
                    /\ UNCHANGED <<pc, version, config, cfgFile, saveFailed>>
               ELSE IF InRange(int(c) - 1, versions)
               THEN IF IndexRaises(versions, int(c) - 1)
                    THEN /\ msg' = "Error: IndexError"
                         /\ pc' = "menu"
                         /\ UNCHANGED <<version, config, cfgFile, saveFailed>>
                    ELSE Returned(Some(Index(versions, int(c) - 1)),
                                  "Selected")
               ELSE /\ msg' = "Invalid choice"
                    /\ UNCHANGED <<pc, version, config, cfgFile, saveFailed>>
       \/ /\ ev' = "interrupt"
          /\ Returned(None, "Cancelled.")
          /\ UNCHANGED line
       \/ /\ ev' = "eof"
          /\ msg' = "Error: EOFError"
          /\ pc' = "menu"
          /\ UNCHANGED <<line, version, config, cfgFile, saveFailed>>
    /\ UNCHANGED <<exitStatus, tmplFile, outFile, choice, invoked>>

\* str.replace(old, new) on a text in which `old` is one token.
replace(text, old, new) ==
    [i \in DOMAIN text |-> IF text[i] = old THEN new ELSE text[i]]

\* generate_compose_file, lines 119-121: the two replacements, in order.
Render(text, defaults) ==
    LET qemu_version == Get(defaults, "qemu_version", "4.2.1")
        gns3_version == Get(defaults, "gns3_server_version", "2.2.40")
    IN  replace(replace(text, QEMU_VERSION, qemu_version),
                GNS3_SERVER_VERSION, gns3_version)

\* Mutant of generate_compose_file: the output is opened for writing before
\* the template is looked for.
generate_compose_file_OpenFirst ==
    IF ~tmplFile.exists
    THEN /\ msg' = "Error: Template file not found!"
         /\ outFile' = Text(<<>>)
    ELSE /\ outFile' = Text(Render(tmplFile.text, get_defaults(config)))
         /\ msg' = "Generated docker-compose.yml"

generate_compose_file ==
    IF ~tmplFile.exists
    THEN /\ msg' = "Error: Template file not found!"
         /\ UNCHANGED outFile
    ELSE /\ outFile' = Text(Render(tmplFile.text, get_defaults(config)))
         /\ msg' = "Generated docker-compose.yml"

\* build_image, lines 134-150: the command line of the build.
BuildCommand(defaults) ==
    LET qemu_version == Get(defaults, "qemu_version", "4.2.1")
        gns3_version == Get(defaults, "gns3_server_version", "2.2.40")
    IN  <<"docker", "build", "QEMU_VERSION=", qemu_version,
          "GNS3_SERVER_VERSION=", gns3_version,
          "-t", "gns3-qemu:", qemu_version, "-server-", gns3_version, ".">>

\* docker_compose, lines 170-174.
ComposeCommand(action) ==
    CASE action = "up" -> <<"docker-compose", "up", "-d">>
      [] action = "down" -> <<"docker-compose", "down">>
      [] action = "logs" -> <<"docker-compose", "logs", "-f">>

\* The action a menu choice passes to docker_compose.
ComposeAction(c) ==
    CASE c = <<"5">> -> "up"
      [] c = <<"6">> -> "down"
      [] c = <<"7">> -> "logs"

\* docker_compose, lines 166-168: no command without docker-compose.yml.
docker_compose_enter(action) ==
    IF ~outFile.exists
    THEN /\ msg' = "Error: docker-compose.yml not found."
         /\ invoked' = <<>>
         /\ pc' = "menu"
    ELSE /\ msg' = ""
         /\ invoked' = ComposeCommand(action)
         /\ pc' = "compose"

\* run(), lines 204-240: one line read at the menu prompt, and the option it
\* selects served up to the point where the program next blocks.
run ==
    /\ pc = "menu"
    /\ \E raw \in MenuLines :
         LET c == Strip(raw) IN
         /\ choice' = c
         /\ ev' = "line"
         /\ line' = <<>>
         /\ IF c \in {<<"1">>, <<"2">>}
            THEN /\ select_version_enter(ComponentOf(c))
                 /\ invoked' = <<>>
                 /\ UNCHANGED <<exitStatus, outFile>>
            ELSE IF c = <<"3">>
            THEN /\ generate_compose_file
                 /\ pc' = "menu"
                 /\ invoked' = <<>>
                 /\ version' = None
                 /\ UNCHANGED exitStatus
            ELSE IF c = <<"4">>
            THEN /\ msg' = "Building Docker image"
                 /\ invoked' = BuildCommand(get_defaults(config))
                 /\ pc' = "build"
                 /\ version' = None
                 /\ UNCHANGED <<exitStatus, outFile>>
            ELSE IF c \in {<<"5">>, <<"6">>, <<"7">>}
            THEN /\ docker_compose_enter(ComposeAction(c))
                 /\ version' = None
                 /\ UNCHANGED <<exitStatus, outFile>>
            ELSE IF c = <<"8">>
            THEN /\ msg' = "Goodbye!"
                 /\ pc' = "exited"
                 /\ exitStatus' = 0
                 /\ invoked' = <<>>
                 /\ version' = None
                 /\ UNCHANGED outFile
            ELSE /\ msg' = "Invalid choice. Please try again."
                 /\ pc' = "menu"
                 /\ invoked' = <<>>
                 /\ version' = None
                 /\ UNCHANGED <<exitStatus, outFile>>
    /\ UNCHANGED <<config, cfgFile, tmplFile, saveFailed>>

\* run(), lines 242-244: KeyboardInterrupt at the menu prompt ends the loop.
run_interrupted ==
    /\ pc = "menu"
    /\ ev' = "interrupt"
    /\ msg' = "Goodbye!"
    /\ pc' = "exited"
    /\ exitStatus' = 0
    /\ invoked' = <<>>
    /\ UNCHANGED <<config, cfgFile, tmplFile, outFile, choice, line, version,
                   saveFailed>>

\* run(), lines 245-246: EOFError at the menu prompt is printed, and the
\* menu is shown again.
run_eof ==
    /\ pc = "menu"
    /\ ev' = "eof"
    /\ msg' = "Error: EOFError"
    /\ invoked' = <<>>
    /\ UNCHANGED <<pc, exitStatus, config, cfgFile, tmplFile, outFile, choice,
                   line, version, saveFailed>>

\* What subprocess.run may deliver.
RunOutcomes == {"exit 0", "exit nonzero", "not found", "interrupt"}

\* build_image, lines 152-162: subprocess.run(cmd, check=True) returns or
\* raises.  CalledProcessError and FileNotFoundError are caught here; a
\* KeyboardInterrupt is not, and reaches run's handler, which ends the loop.
build_image ==
    /\ pc = "build"
    /\ \E outcome \in RunOutcomes :
         /\ ev' = outcome
         /\ CASE outcome = "exit 0" ->
                   msg' = "Successfully built" /\ pc' = "menu"
                   /\ UNCHANGED exitStatus
              [] outcome = "exit nonzero" ->
                   msg' = "Build failed" /\ pc' = "menu"
                   /\ UNCHANGED exitStatus
              [] outcome = "not found" ->
                   msg' = "Error: Docker not found." /\ pc' = "menu"
                   /\ UNCHANGED exitStatus
              [] outcome = "interrupt" ->
                   msg' = "Goodbye!" /\ pc' = "exited" /\ exitStatus' = 0
    /\ UNCHANGED <<config, cfgFile, tmplFile, outFile, choice, line, version,
                   invoked, saveFailed>>

\* docker_compose, lines 180-200: "logs" runs unchecked, "up" and "down"
\* with check=True; all three exceptions are caught here.
docker_compose ==
    /\ pc = "compose"
    /\ \E outcome \in RunOutcomes :
         LET action == ComposeAction(choice) IN
         /\ ev' = outcome
         /\ msg' =
              CASE outcome = "not found" -> "Error: docker-compose not found."
                [] outcome = "interrupt" ->
                     IF action = "logs" THEN "Stopped viewing logs." ELSE ""
                [] outcome = "exit nonzero" ->
                     IF action = "logs" THEN "" ELSE "Command failed"
                [] outcome = "exit 0" ->
                     CASE action = "up" -> "Services started successfully"
                       [] action = "down" -> "Services stopped successfully"
                       [] action = "logs" -> ""
    /\ pc' = "menu"
    /\ UNCHANGED <<exitStatus, config, cfgFile, tmplFile, outFile, choice, line,
                   version, invoked, saveFailed>>

-----------------------------------------------------------------------------
(* The session *)

Init ==
    /\ pc = "start"
    /\ exitStatus = -1
    /\ config = EmptyDict
    /\ cfgFile \in {MissingFile, Unparseable}
                   \cup {JsonText("compact", d) : d \in InitDocs}
    /\ tmplFile \in InitTemplates
    /\ outFile \in InitOutputs
    /\ choice = <<>>
    /\ line = <<>>
    /\ version = None
    /\ ev = "none"
    /\ msg = ""
    /\ invoked = <<>>
    /\ saveFailed = FALSE

Next ==
    \/ main
    \/ run
    \/ run_interrupted
    \/ run_eof
    \/ select_version
    \/ build_image
    \/ docker_compose

Spec == Init /\ [][Next]_vars

-----------------------------------------------------------------------------
(* Properties *)

\* The step reads a line at the menu prompt and serves choice c.
Serves(c) == pc = "menu" /\ ev' = "line" /\ choice' = c

\* The step is one iteration of the version prompt that reads a line.
PromptReads == pc = "select" /\ ev' = "line"

\* C1: a version selection that ends without a choice (the cancel input is
\* entered, the prompt is interrupted, or the component has no versions)
\* leaves the in-memory configuration and config.json exactly as they were,
\* and the session is back at the menu.
C1_CancelChangesNothing ==
    [][ ( \/ PromptReads /\ line' \in {<<"q">>, <<" ", "q", " ">>}
          \/ pc = "select" /\ ev' = "interrupt"
          \/ \E c \in {<<"1">>, <<"2">>} :
                Serves(c) /\ VersionsOf(ComponentOf(c)) = <<>> )
        => /\ config' = config
           /\ cfgFile' = cfgFile
           /\ version' = None
           /\ pc' = "menu" ]_vars

\* A selection cancelled with q after a default had been saved: the saved
\* default is still there.
C1_Witness ==
    /\ pc = "menu"
    /\ choice = <<"2">>
    /\ line = <<"q">>
    /\ ev = "line"
    /\ version = None
    /\ Get(get_defaults(config), "gns3_server_version", "") = "2.2.54"
    /\ cfgFile = json_dump(config)

\* What an iteration of the version prompt does with the line it read, given
\* which lines count as the cancel input.
PromptContract(isCancel) ==
    PromptReads =>
        LET c == Strip(line')
            N == Len(versions)
        IN  IF isCancel
            THEN version' = None /\ pc' = "menu"
            ELSE IF IsIntLiteral(c) /\ 1 <= int(c) /\ int(c) <= N
            THEN version' = Some(versions[int(c)]) /\ pc' = "menu"
            ELSE /\ pc' = "select"
                 /\ msg' \in {"Invalid input", "Invalid choice"}
                 /\ UNCHANGED <<config, cfgFile, version>>

PromptInterrupted ==
    pc = "select" /\ ev' = "interrupt" => version' = None /\ pc' = "menu"

\* C2 as claimed: with N versions offered, a line that is an integer k in
\* 1..N returns versions[k-1]; the cancel input q, or an interruption,
\* returns no selection; every other line (not an integer, or out of range)
\* only re-prompts.
C2_Original ==
    [][ PromptContract(Strip(line') = <<"q">>) /\ PromptInterrupted ]_vars

\* C2 as amended: the cancel input is q in either case, q or Q.
C2_SelectVersion ==
    [][ PromptContract(Lower(Strip(line')) = <<"q">>) /\ PromptInterrupted ]_vars

\* The second of two versions was chosen with the line "2".
C2_Witness ==
    /\ pc = "menu"
    /\ ev = "line"
    /\ line = <<"2">>
    /\ Len(versions) = 2
    /\ version = Some(versions[2])

\* The defaults a fresh load of config.json would yield are those in memory.
FileMatchesMemory ==
    /\ cfgFile.state = "json"
    /\ get_defaults(json_load(cfgFile)) = get_defaults(config)

\* C3: write-through.  When update_default(c, v) has saved, get_defaults()
\* holds "<c>_version" = v and re-loading config.json yields the in-memory
\* defaults; and as long as no save has failed, the persisted defaults equal
\* the in-memory ones whenever the session is at the menu.
C3_WriteThrough ==
    /\ (pc = "menu" /\ msg = "Updated default") =>
          /\ version # None
          /\ DefaultKey(component) \in DOMAIN get_defaults(config)
          /\ get_defaults(config)[DefaultKey(component)] = version[1]
          /\ FileMatchesMemory
    /\ (pc = "menu" /\ ~saveFailed) => FileMatchesMemory

\* A QEMU version saved into a configuration that held no default before.
C3_Witness ==
    /\ pc = "menu"
    /\ msg = "Updated default"
    /\ ~saveFailed
    /\ version = Some("8.2.0")
    /\ get_defaults(config) = [qemu_version |-> "8.2.0"]
    /\ cfgFile.layout = "indent2"

\* C4: rendering with no template file fails without raising, writes
\* nothing to docker-compose.yml (a present file keeps its content, a
\* missing one stays missing), leaves the configuration alone, and the menu
\* loop continues.
C4_MissingTemplate ==
    [][ (Serves(<<"3">>) /\ ~tmplFile.exists)
        => /\ msg' = "Error: Template file not found!"
           /\ outFile' = outFile
           /\ tmplFile' = tmplFile
           /\ config' = config
           /\ cfgFile' = cfgFile
           /\ pc' = "menu" ]_vars

\* Rendering failed for want of a template, and the earlier output is intact.
C4_Witness ==
    /\ pc = "menu"
    /\ choice = <<"3">>
    /\ msg = "Error: Template file not found!"
    /\ ~tmplFile.exists
    /\ outFile = Text(<<"previously rendered">>)

\* The template text with every placeholder occurrence replaced by its own
\* value, all at once.
Substituted(text, defaults) ==
    [i \in DOMAIN text |->
        IF text[i] = QEMU_VERSION
        THEN Get(defaults, "qemu_version", "4.2.1")
        ELSE IF text[i] = GNS3_SERVER_VERSION
        THEN Get(defaults, "gns3_server_version", "2.2.40")
        ELSE text[i]]

\* C5: with the template present, rendering overwrites docker-compose.yml
\* with the template text in which every ${QEMU_VERSION} is replaced by
\* defaults["qemu_version"] (or "4.2.1") and every ${GNS3_SERVER_VERSION} by
\* defaults["gns3_server_version"] (or "2.2.40"), everything else verbatim,
\* and the template file is not modified.
C5_Render ==
    [][ (Serves(<<"3">>) /\ tmplFile.exists)
        => /\ outFile' = Text(Substituted(tmplFile.text, get_defaults(config)))
           /\ tmplFile' = tmplFile ]_vars

\* The step is the failure of one operation, as the menu serves it.
OperationFails ==
    \/ \E c \in {Strip(l) : l \in MenuLines} \ {<<DigitChars[k + 1]>> : k \in 1..8} :
          Serves(c)
    \/ Serves(<<"3">>) /\ ~tmplFile.exists
    \/ \E c \in {<<"5">>, <<"6">>, <<"7">>} : Serves(c) /\ ~outFile.exists
    \/ pc \in {"build", "compose"} /\ ev' = "not found"
    \/ pc = "build" /\ ev' = "exit nonzero"
    \/ pc = "compose" /\ ev' = "exit nonzero" /\ ComposeAction(choice) # "logs"
    \/ pc = "select" /\ msg' = "Error: OSError"

\* C6: once startup has succeeded, the failure of one operation prints a
\* message and shows the menu again, and the main loop is left only by menu
\* option 8 or by an interruption at the menu prompt.
C6_MenuResilience ==
    [][ /\ OperationFails => (pc' = "menu" /\ msg' # "")
        /\ (pc # "start" /\ pc' = "exited") =>
              /\ pc = "menu"
              /\ (ev' = "line" /\ choice' = <<"8">>) \/ ev' = "interrupt" ]_vars

\* C7: startup is all-or-nothing.  With config.json missing or unparseable
\* the process ends with a non-zero status, the menu is never reached, no
\* file is written and no external command is invoked.
C7_StartupAllOrNothing ==
    [][ /\ (pc = "start" /\ cfgFile.state # "json") =>
              /\ pc' = "exited"
              /\ exitStatus' > 0
              /\ UNCHANGED <<cfgFile, tmplFile, outFile>>
              /\ invoked' = <<>>
        /\ pc = "exited" => UNCHANGED vars ]_vars

\* The process has ended at startup on an unparseable config.json, an
\* earlier docker-compose.yml untouched.
C7_Witness ==
    /\ pc = "exited"
    /\ exitStatus = 1
    /\ cfgFile = Unparseable
    /\ outFile = Text(<<"previously rendered">>)
    /\ tmplFile.exists
    /\ invoked = <<>>

\* C8: an interruption while the program waits (at the version prompt, or
\* for an external command: image build, services up, services down, log
\* view) cancels that one operation: the configuration in memory and on file
\* is unchanged and control returns to the menu.
C8_InterruptCancels ==
    [][ (pc \in {"select", "build", "compose"} /\ ev' = "interrupt")
        => /\ pc' = "menu"
           /\ config' = config
           /\ cfgFile' = cfgFile ]_vars

\* C9: update_default is not transactional.  When the save raises after a
\* selection of v, the in-memory default is v all the same, the exception is
\* printed and the session is back at the menu, and config.json has not
\* been given the new document (it is as it was, or unparseable); a later
\* build or render takes its versions from memory, not from the file.
C9_NoRollback ==
    [][ /\ (pc = "select" /\ msg' = "Error: OSError") =>
              /\ version' # None
              /\ DefaultKey(component) \in DOMAIN get_defaults(config')
              /\ get_defaults(config')[DefaultKey(component)] = version'[1]
              /\ pc' = "menu"
              /\ cfgFile' = cfgFile \/ cfgFile' = Unparseable
        /\ Serves(<<"4">>) =>
              /\ invoked'[4] = Get(get_defaults(config), "qemu_version", "4.2.1")
              /\ invoked'[6] =
                    Get(get_defaults(config), "gns3_server_version", "2.2.40")
        /\ (Serves(<<"3">>) /\ tmplFile.exists) =>
              \A i \in DOMAIN tmplFile.text :
                 tmplFile.text[i] = GNS3_SERVER_VERSION =>
                    outFile'.text[i] =
                       Get(get_defaults(config), "gns3_server_version", "2.2.40")
      ]_vars

\* A build started with the QEMU version whose save had failed: config.json
\* holds no QEMU default at all.
C9_Witness ==
    /\ pc = "build"
    /\ saveFailed
    /\ invoked[4] = "8.2.0"
    /\ get_defaults(config)["qemu_version"] = "8.2.0"
    /\ cfgFile.state = "json"
    /\ "qemu_version" \notin DOMAIN get_defaults(json_load(cfgFile))

\* The default of the component that the selection being served is not for.
OtherKey ==
    IF component = "gns3_server" THEN "qemu_version" ELSE "gns3_server_version"

\* The entry of a mapping, or that it has none.
Entry(d, k) == IF k \in DOMAIN d THEN <<d[k]>> ELSE <<>>

\* What a selection, the external commands and rendering leave alone, given
\* when a saved selection is held to leave the rest of config.json as it was.
FrameContract(fileKept) ==
    /\ pc = "select" =>
          /\ Entry(get_defaults(config'), OtherKey)
                = Entry(get_defaults(config), OtherKey)
          /\ Entry(config', "available_versions")
                = Entry(config, "available_versions")
          /\ UNCHANGED <<outFile, tmplFile>>
    /\ (pc = "select" /\ msg' = "Updated default") =>
          /\ get_defaults(config')[DefaultKey(component)] = version'[1]
          /\ cfgFile'.state = "json"
          /\ json_load(cfgFile') = config'
    /\ (pc = "select" /\ msg' = "Updated default"
           /\ cfgFile.state = "json" /\ fileKept) =>
          /\ Entry(get_defaults(json_load(cfgFile')), OtherKey)
                = Entry(get_defaults(json_load(cfgFile)), OtherKey)
          /\ Entry(json_load(cfgFile'), "available_versions")
                = Entry(json_load(cfgFile), "available_versions")
    /\ ( \/ pc \in {"build", "compose"}
         \/ \E c \in {<<"4">>, <<"5">>, <<"6">>, <<"7">>} : Serves(c) ) =>
          UNCHANGED <<config, cfgFile, outFile>>
    /\ outFile' # outFile => Serves(<<"3">>)
    /\ \A c \in {<<"5">>, <<"6">>, <<"7">>} :
          Serves(c) =>
             IF outFile.exists
             THEN invoked' = ComposeCommand(ComposeAction(c))
             ELSE invoked' = <<>> /\ pc' = "menu"

\* C10 as claimed: docker-compose.yml is written only by rendering; a
\* confirmed selection changes only defaults["<component>_version"], in
\* memory and in config.json, leaving the other default, available_versions
\* and docker-compose.yml as they were; build, up, down and logs change
\* neither the configuration nor docker-compose.yml; up, down and logs
\* invoke no command while docker-compose.yml does not exist.
C10_Original == [][ FrameContract(TRUE) ]_vars

\* C10 as amended: in config.json the other entries are as they were when
\* no earlier save of the session has failed (after a failed save, the next
\* successful one also writes what the failed one left behind).
C10_Frame == [][ FrameContract(~saveFailed) ]_vars

\* A server version saved after a render: docker-compose.yml still holds
\* the versions rendered before, and the QEMU default is untouched.
C10_Witness ==
    /\ pc = "menu"
    /\ msg = "Updated default"
    /\ choice = <<"1">>
    /\ ~saveFailed
    /\ get_defaults(config)
          = [qemu_version |-> "7.0.0", gns3_server_version |-> "2.2.54"]
    /\ outFile.exists
    /\ Len(outFile.text) = 6
    /\ outFile.text[4] = "2.2.53"

====
